---- MODULE Spec2Model ----
(***************************************************************************)
(* Order-to-ticket fulfillment of the event-ticketing backend (mainForm):  *)
(* order creation and update, user registration, the Asaas payment         *)
(* webhook, the post_save signal on Order, holder assignment, ticket       *)
(* redemption, email dispatch, the Celery tasks with their retries, and    *)
(* the check-in service.                                                   *)
(*                                                                         *)
(* Tables are sequences; a row's primary key is its index.  A NULL foreign *)
(* key and an unset timestamp are 0; a Python None string is Null.         *)
(***************************************************************************)
EXTENDS Integers, Sequences, FiniteSets, TLC

VARIABLES
    users,      \* User rows: [email, asaas_customer_id]
    orders,     \* Order rows
    items,      \* OrderItem rows
    tickets,    \* Ticket rows
    webhooks,   \* PaymentWebhook rows (the audit log)
    taskQueue,  \* tasks handed to the broker with .delay(), in order
    gateway,    \* requests sent to the payment gateway, in order
    now,        \* timezone.now()
    nreq,       \* number of requests (HTTP requests, redeem calls) handled so far
    resp,       \* the last request handled and the response given
    gen,        \* per worker: position inside process_ticket_generation
    genRuns,    \* number of process_ticket_generation executions started
    emailLogs,  \* EmailLog rows
    mail,       \* the last email attempt made and how it ended
    jobs,       \* task messages at the worker: [task, retries, executions, state, raised]
    checkin,    \* check-in service: presence, attempt counter and its expiry per token
    page,       \* process_ticket_page: its argument, loop position, counters and result
    qr,         \* QR image cache, and the last call of generate_qr_code_image
    asaas       \* calls of AsaasService in progress, one per request process

vars == <<users, orders, items, tickets, webhooks, taskQueue, gateway,
          now, nreq, resp, gen, genRuns, emailLogs, mail, jobs, checkin, page, qr, asaas>>

Null == "None"

\* Bounds of the model.
MaxRequests == 2
MaxQuantity == 2
MaxGenRuns == 3
MaxEmailAttempts == 3
MaxEnqueues == 1
MaxExecutions == 5
MaxCheckIns == 6

----------------------------------------------------------------------------
(* Attendees of the check-in service: the tokens that name an attendee,    *)
(* those whose attendee is present already, and the tokens a client sends  *)
(* (one names nobody).                                                     *)

Attendees == {"t1", "t2"}

PresentAtStart == {"t2"}

CheckInTokens == Attendees \cup {"bad"}

----------------------------------------------------------------------------
(* Helpers on sequences *)

RECURSIVE SumSeq(_)
SumSeq(s) == IF s = <<>> THEN 0 ELSE Head(s) + SumSeq(Tail(s))

RECURSIVE Flatten(_)
Flatten(ss) == IF ss = <<>> THEN <<>> ELSE Head(ss) \o Flatten(Tail(ss))

Ids(table) == [k \in 1..Len(table) |-> k]

----------------------------------------------------------------------------
(* Rows present before any request: ticket classes, the buyer, and orders  *)
(* as the test factories build them.                                       *)

\* TicketClass table: id -> price (a priced class and a complimentary one).
TicketClassPrice == (1 :> 100) @@ (2 :> 0)

TicketClassExists(id) == id \in DOMAIN TicketClassPrice

Buyer == 1

InitialUsers == << [email |-> "buyer@example.com", asaas_customer_id |-> Null] >>

\* One order of the fixture: its status/state/payment id, the quantity of
\* its single OrderItem (0: no item) and whether its Tickets exist already
\* ("none"), exist unassigned ("blank"), exist with a holder ("held") or
\* exist with a holder and redeemed ("redeemed", TicketFactory's trait).
\* A ticket's qr_code is a UUID, here a number; the fixture's are distinct.
\* A paid order starts with paid_at set: both writers of 'pago' (views.py:192
\* and views.py:280) write paid_at in the same save.
FixtureClass(s) == IF s.payment_id = "" THEN 2 ELSE 1

\* A shape with a field second describes an order with a second OrderItem
\* of that quantity.
SecondQuantity(s) == IF "second" \in DOMAIN s THEN s.second ELSE 0

FixtureOrder(s) ==
    [user |-> Buyer,
     total_amount |-> TicketClassPrice[FixtureClass(s)] * (s.quantity + SecondQuantity(s)),
     status |-> s.status,
     state |-> s.state,
     payment_id |-> s.payment_id,
     payment_data |-> IF s.payment_id = "" THEN "{}" ELSE "charge",
     paid_at |-> IF s.status = "pago" THEN 1 ELSE 0]

FixtureItem(s, oid, quantity) ==
    IF quantity = 0 THEN <<>>
    ELSE << [order |-> oid,
             ticket_class |-> FixtureClass(s),
             quantity |-> quantity,
             unit_price |-> TicketClassPrice[FixtureClass(s)],
             subtotal |-> TicketClassPrice[FixtureClass(s)] * quantity] >>

FixtureItems(s, oid) == FixtureItem(s, oid, s.quantity) \o FixtureItem(s, oid, SecondQuantity(s))

FixtureTickets(s, oid, iid, base) ==
    IF s.quantity = 0 \/ s.tickets = "none" THEN <<>>
    ELSE [j \in 1..s.quantity |->
            [order |-> oid,
             order_item |-> iid,
             qr_code |-> base + j,
             is_redeemed |-> s.tickets = "redeemed",
             redeemed_at |-> IF s.tickets = "redeemed" THEN 1 ELSE 0,
             redeemed_by_staff |-> IF s.tickets = "redeemed" THEN "Staff" ELSE "",
             holder_name |-> IF s.tickets = "blank" THEN "" ELSE "Holder",
             holder_email |-> IF s.tickets = "blank" THEN "" ELSE "holder@example.com"]]

RECURSIVE BuildFixture(_, _)
BuildFixture(shapes, db) ==
    IF shapes = <<>> THEN db
    ELSE LET s == Head(shapes)
             oid == Len(db.orders) + 1
             iid == Len(db.items) + 1
         IN BuildFixture(Tail(shapes),
                [orders |-> Append(db.orders, FixtureOrder(s)),
                 items |-> db.items \o FixtureItems(s, oid),
                 tickets |-> db.tickets \o FixtureTickets(s, oid, iid, Len(db.tickets))])

EmptyDB == [orders |-> <<>>, items |-> <<>>, tickets |-> <<>>]

\* Every variable except the three order tables.
InitRest ==
    /\ users = InitialUsers
    /\ webhooks = <<>>
    /\ taskQueue = <<>>
    /\ gateway = <<>>
    /\ now = 2
    /\ nreq = 0
    /\ resp = [op |-> "none", status |-> 0]
    /\ gen = [w \in {"w1", "w2"} |-> [pc |-> "idle", order |-> 0, result |-> "none"]]
    /\ genRuns = 0
    /\ emailLogs = <<>>
    /\ mail = [caller |-> "none", outcome |-> "none", raised |-> FALSE, attempts |-> 0]
    /\ jobs = <<>>
    /\ checkin = [present |-> [t \in Attendees |-> t \in PresentAtStart],
                  attempts |-> [t \in CheckInTokens |-> 0],
                  expiry |-> [t \in CheckInTokens |-> 0],
                  n |-> 0]
    /\ page = [ids |-> <<>>, pos |-> 0, successful |-> 0, failed |-> 0,
               raised |-> FALSE, returned |-> FALSE,
               result |-> [success |-> 0, failed |-> 0]]
    /\ qr = [cache |-> {}, n |-> 0,
             last |-> [ticket |-> 0, read_ok |-> TRUE, render_ok |-> TRUE, write_ok |-> TRUE,
                       result |-> "none", raised |-> FALSE, from_cache |-> FALSE]]
    /\ asaas = [n |-> 0,
                proc |-> [p \in {"r1", "r2"} |->
                            [pc |-> "idle", caller |-> "none", had_id |-> FALSE,
                             pending |-> Null, requests |-> 0, result |-> Null,
                             raised |-> FALSE]]]

InitFrom(shapeSeqs) ==
    /\ \E shapes \in shapeSeqs :
          LET db == BuildFixture(shapes, EmptyDB)
          IN /\ orders = db.orders
             /\ items = db.items
             /\ tickets = db.tickets
    /\ InitRest

----------------------------------------------------------------------------
(* Queries shared by the handlers *)

ItemsOf(oid) == SelectSeq(Ids(items), LAMBDA k : items[k].order = oid)

TicketsOf(oid) == SelectSeq(Ids(tickets), LAMBDA k : tickets[k].order = oid)

TicketsOfItem(iid) == SelectSeq(Ids(tickets), LAMBDA k : tickets[k].order_item = iid)

SumQuantity(oid) == SumSeq([k \in 1..Len(ItemsOf(oid)) |-> items[ItemsOf(oid)[k]].quantity])

SumSubtotal(oid) == SumSeq([k \in 1..Len(ItemsOf(oid)) |-> items[ItemsOf(oid)[k]].subtotal])

----------------------------------------------------------------------------
(* signals.py: post_save receiver on Order *)

HasHolderEmail(t) == t.holder_email # Null /\ t.holder_email # ""

SendAssignedTicketEmailTask(tid) == [task |-> "send_assigned_ticket_email", arg |-> tid]

\* on_order_paid without the test of line 18: every save of a stored order
\* sends the emails.
on_order_paid_EverySave(tks, oid, created, status, update_fields) ==
    IF created THEN <<>>
    ELSE LET toSend == SelectSeq(Ids(tks),
                          LAMBDA k : tks[k].order = oid /\ HasHolderEmail(tks[k]))
         IN [k \in 1..Len(toSend) |-> SendAssignedTicketEmailTask(toSend[k])]

\* The tasks on_order_paid hands to the broker for one Order.save():
\* none for a created row; otherwise, when the saved status is 'pago' and
\* 'status' is among update_fields, one task per ticket with a holder email.
on_order_paid(tks, oid, created, status, update_fields) ==
    IF created THEN <<>>
    ELSE IF status = "pago" /\ update_fields # {} /\ "status" \in update_fields
         THEN LET toSend == SelectSeq(Ids(tks),
                               LAMBDA k : tks[k].order = oid /\ HasHolderEmail(tks[k]))
              IN [k \in 1..Len(toSend) |-> SendAssignedTicketEmailTask(toSend[k])]
         ELSE <<>>

----------------------------------------------------------------------------
(* Transactions.  The only transaction.atomic() block of views.py is the   *)
(* one of OrderViewSet.create (views.py:121); the webhook, registration    *)
(* and assignment views write in autocommit, so a row they saved is        *)
(* committed when save() returns and the post_save receiver runs.          *)

AtomicBlockSites == {"OrderViewSet.create"}

InAtomicBlockAlways(site) == TRUE

InAtomicBlock(site) == site \in AtomicBlockSites

\* How many of the tasks a handler hands to the broker are handed over while
\* its transaction is still open.
EnqueuedInTx(site, tasks) == IF InAtomicBlock(site) THEN Len(tasks) ELSE 0

----------------------------------------------------------------------------
(* views.py: AsaasWebHookView.post *)

ASAAS_WEBHOOK_SECRET == "whsec"

WebhookTokens == {ASAAS_WEBHOOK_SECRET, "forged", Null}

\* The `payment` member of the body: absent, present but no JSON object,
\* or an object whose `id` is absent (Null) or a string, possibly empty.
PaymentMembers ==
    {[kind |-> "absent", id |-> Null], [kind |-> "notdict", id |-> Null]}
    \cup {[kind |-> "dict", id |-> p] : p \in {Null, "", "pay_1", "pay_9"}}

\* Bodies with an event id, and PAYMENT_RECEIVED bodies without one.
WebhookPayloads ==
    [event : {"PAYMENT_RECEIVED", "PAYMENT_OVERDUE", Null},
     id : {"evt_1"},
     payment : PaymentMembers]
    \cup
    [event : {"PAYMENT_RECEIVED"},
     id : {Null},
     payment : {m \in PaymentMembers : m.id = "pay_1"}]

\* What the surroundings do during the request: nothing special, the
\* database refuses the Order query, or the broker refuses .delay().
Environments == {"ok", "db_down", "broker_down"}

\* views.py:256
TokenAcceptedWhenPresent(token) == token # Null /\ token # ""

TokenAccepted(token) == token # Null /\ token # "" /\ token = ASAAS_WEBHOOK_SECRET

\* views.py:265-270: the row the view hands to PaymentWebhook.objects.create;
\* no order is given.
AuditRow(payload) ==
    [order |-> 0,
     provider |-> "asaas",
     webhook_id |-> payload.id,
     event_type |-> payload.event,
     payload |-> payload,
     processed |-> FALSE]

\* models.py:204-208: order, webhook_id and event_type are NOT NULL columns.
PaymentWebhookInsertable(row) ==
    /\ row.order > 0
    /\ row.webhook_id # Null
    /\ row.event_type # Null

\* views.py:264-272: an insert the database rejects is logged and dropped.
StoreWebhook(log, payload) ==
    IF PaymentWebhookInsertable(AuditRow(payload))
    THEN Append(log, AuditRow(payload))
    ELSE log

\* views.py:275: payload.get('payment', {}).get('id'); "raise" when the
\* member is no object (AttributeError, outside any try).
PaymentIdOf(payload) ==
    CASE payload.payment.kind = "absent" -> Null
      [] payload.payment.kind = "notdict" -> "raise"
      [] OTHER -> payload.payment.id

\* views.py:279: Order.objects.get(payment_id=payment_id)
OrdersWithPaymentId(ords, pid) == {k \in DOMAIN ords : ords[k].payment_id = pid}

\* views.py:280-282: status and paid_at written by one save(update_fields).
MarkPaidStatusOnly(order, t) == [order EXCEPT !.status = "pago"]

MarkPaidOrReopen(order, t) ==
    IF order.status = "pago" THEN [order EXCEPT !.status = "pendente"]
    ELSE [order EXCEPT !.status = "pago", !.paid_at = t]

MarkPaid(order, t) == [order EXCEPT !.status = "pago", !.paid_at = t]

\* views.py:278-288: what the try block raises, "" for nothing.
\* Order.objects.get raises on no row and on several rows; a database error
\* surfaces from the query; a broker error surfaces from .delay() inside the
\* post_save receiver, after the row was written.
ReconcileError(ords, tks, pid, env) ==
    LET found == OrdersWithPaymentId(ords, pid)
    IN IF env = "db_down" THEN "OperationalError"
       ELSE IF found = {} THEN "DoesNotExist"
       ELSE IF Cardinality(found) > 1 THEN "MultipleObjectsReturned"
       ELSE IF env = "broker_down"
               /\ on_order_paid(tks, CHOOSE k \in found : TRUE, FALSE, "pago",
                                {"status", "paid_at"}) # <<>>
            THEN "BrokerError"
       ELSE ""

\* views.py:285-288: except Order.DoesNotExist / except Exception.
CaughtOnlyDoesNotExist(error) == error = "DoesNotExist"

CaughtByWebhook(error) == TRUE

\* views.py:277-288: the PAYMENT_RECEIVED branch.  Gives the Order table,
\* the tasks enqueued and the error raised.
ReconcilePayment(ords, tks, pid, t, env) ==
    LET found == OrdersWithPaymentId(ords, pid)
        error == ReconcileError(ords, tks, pid, env)
    IN IF error \in {"OperationalError", "DoesNotExist", "MultipleObjectsReturned"}
       THEN [orders |-> ords, tasks |-> <<>>, error |-> error]
       ELSE LET oid == CHOOSE k \in found : TRUE
                saved == [ords EXCEPT ![oid] = MarkPaid(@, t)]
                tasks == on_order_paid(tks, oid, FALSE, saved[oid].status,
                                       {"status", "paid_at"})
            IN [orders |-> saved,
                tasks |-> IF error = "BrokerError" THEN <<>> ELSE tasks,
                error |-> error]

\* The whole handler: status code, Order table, audit log, tasks enqueued.
AsaasWebHookView_post(token, payload, env) ==
    LET pid == PaymentIdOf(payload)
        log == StoreWebhook(webhooks, payload)
    IN IF ~TokenAccepted(token)
       THEN [status |-> 401, orders |-> orders, webhooks |-> webhooks, tasks |-> <<>>]
       ELSE IF pid = "raise"
            THEN [status |-> 500, orders |-> orders, webhooks |-> log, tasks |-> <<>>]
       ELSE IF payload.event = "PAYMENT_RECEIVED" /\ pid # Null /\ pid # ""
            THEN LET r == ReconcilePayment(orders, tickets, pid, now, env)
                 IN [status |-> IF r.error = "" \/ CaughtByWebhook(r.error)
                                THEN 200 ELSE 500,
                     orders |-> r.orders, webhooks |-> log, tasks |-> r.tasks]
            ELSE [status |-> 200, orders |-> orders, webhooks |-> log, tasks |-> <<>>]

WebhookPost(token, payload, env) ==
    /\ nreq < MaxRequests
    /\ LET r == AsaasWebHookView_post(token, payload, env)
       IN /\ orders' = r.orders
          /\ webhooks' = r.webhooks
          /\ taskQueue' = taskQueue \o r.tasks
          /\ resp' = [op |-> "webhook", status |-> r.status, token |-> token,
                      payload |-> payload, env |-> env,
                      enqueued_in_tx |-> EnqueuedInTx("AsaasWebHookView.post", r.tasks)]
    /\ nreq' = nreq + 1
    /\ now' = now + 1
    /\ UNCHANGED <<users, items, tickets, gateway, gen, genRuns, emailLogs, mail, jobs, checkin, page, qr, asaas>>

\* Orders the webhook can meet: pending or paid, with a gateway charge id or
\* complimentary (empty payment id), their tickets with or without holders;
\* and a charged order that was refunded (models.py:118-123).
WebhookShapes ==
    [status : {"pendente", "pago"}, state : {"ativo"}, payment_id : {"pay_1", ""},
     quantity : {MaxQuantity}, tickets : {"none", "held"}]
    \cup
    [status : {"estornado"}, state : {"ativo"}, payment_id : {"pay_1"},
     quantity : {MaxQuantity}, tickets : {"held"}]

\* No order, one order, or a charged order followed by any other.
WebhookFixtures ==
    {<<>>} \cup {<<a>> : a \in WebhookShapes}
           \cup {<<a, b>> : a \in {s \in WebhookShapes : s.payment_id # ""},
                            b \in WebhookShapes}

InitWebhook == InitFrom(WebhookFixtures)

NextWebhook ==
    \E token \in WebhookTokens, payload \in WebhookPayloads, env \in Environments :
        WebhookPost(token, payload, env)

SpecWebhook == InitWebhook /\ [][NextWebhook]_vars

----------------------------------------------------------------------------
(* serializers.py: OrderCreateSerializer; views.py: OrderViewSet.create *)

IdempotencyKeys == {"idem-key-0001"}

HolderOf(i, j) ==
    [holder_name |-> "holder" \o ToString(i) \o ToString(j),
     holder_email |-> "h" \o ToString(i) \o ToString(j) \o "@example.com"]

\* Items a client may send.  `holders` is <<>> when the member is absent and
\* <<list>> when it is present.
WellFormedItems ==
    {[ticket_class_id |-> c, quantity |-> q, holders |-> h] :
        c \in {1, 2, 9}, q \in {1, MaxQuantity}, h \in {<<>>}}
    \cup
    {[ticket_class_id |-> c, quantity |-> q, holders |-> << [j \in 1..q |-> HolderOf(c, j)] >>] :
        c \in {1, 2, 9}, q \in {1, MaxQuantity}}

MalformedItems ==
    {[ticket_class_id |-> 1, quantity |-> 0, holders |-> <<>>],
     [ticket_class_id |-> 1, quantity |-> 1,
      holders |-> << <<HolderOf(1, 1), HolderOf(1, 2)>> >>]}

RequestItems == WellFormedItems \cup MalformedItems

ItemLists ==
    {<<>>} \cup {<<a>> : a \in RequestItems}
           \cup {<<a, b>> : a \in RequestItems, b \in RequestItems}

HasHolders(item) == item.holders # <<>>

ItemValidIgnoringHolders(item) ==
    /\ item.ticket_class_id >= 1
    /\ item.quantity >= 1

\* serializers.py:161-172: one item.
ItemValid(item) ==
    /\ item.ticket_class_id >= 1
    /\ item.quantity >= 1
    /\ HasHolders(item) => Len(item.holders[1]) = item.quantity

\* serializers.py:174-177: the request.
OrderCreateValid(itemsData) ==
    /\ itemsData # <<>>
    /\ \A i \in 1..Len(itemsData) : ItemValid(itemsData[i])

\* views.py:122: the holders of all items, in one flat list.
AllHoldersData(itemsData) ==
    Flatten([i \in 1..Len(itemsData) |->
                IF HasHolders(itemsData[i]) THEN itemsData[i].holders[1] ELSE <<>>])

AssemblyRejectionFirstItemOnly(itemsData) ==
    IF itemsData = <<>> THEN 0
    ELSE IF ~TicketClassExists(Head(itemsData).ticket_class_id) THEN 401
    ELSE IF Head(itemsData).quantity <= 0 THEN 400
    ELSE 0

\* views.py:127-142: the response of the first item the loop rejects, 0 when
\* it rejects none.
RECURSIVE AssemblyRejection(_)
AssemblyRejection(itemsData) ==
    IF itemsData = <<>> THEN 0
    ELSE IF ~TicketClassExists(Head(itemsData).ticket_class_id) THEN 401
    ELSE IF Head(itemsData).quantity <= 0 THEN 400
    ELSE AssemblyRejection(Tail(itemsData))

\* views.py:144-156 and models.py:198-200: the OrderItem rows to create.
OrderItemsToCreate(itemsData, oid) ==
    [i \in 1..Len(itemsData) |->
        [order |-> oid,
         ticket_class |-> itemsData[i].ticket_class_id,
         quantity |-> itemsData[i].quantity,
         unit_price |-> TicketClassPrice[itemsData[i].ticket_class_id],
         subtotal |-> TicketClassPrice[itemsData[i].ticket_class_id]
                        * itemsData[i].quantity]]

\* views.py:123-145: total_amount.
TotalAmount(itemsData) ==
    SumSeq([i \in 1..Len(itemsData) |->
              TicketClassPrice[itemsData[i].ticket_class_id] * itemsData[i].quantity])

\* views.py:159-163
NewOrder(user, total) ==
    [user |-> user, total_amount |-> total, status |-> "pendente", state |-> "ativo",
     payment_id |-> "", payment_data |-> "{}", paid_at |-> 0]

\* views.py:44: the model names the views module imports.
ViewsModelNames == {"Event", "Order", "TicketClass", "OrderItem", "PaymentWebhook"}

\* views.py:167-181: what the first pass of the ticket loop raises.  The
\* request has an item (allow_empty=False) of quantity >= 1 (line 138), so
\* the first pass always reaches these lines:
\*   171  all_holders_data[0] on an empty flat list: IndexError;
\*   174  Ticket(...), a name the module does not bind: NameError;
\*   177  holders_for_this_item[0], an integer key on a holder dict: KeyError.
TicketLoopError(itemsData) ==
    IF Len(AllHoldersData(itemsData)) < 1 THEN "IndexError"
    ELSE IF "Ticket" \notin ViewsModelNames THEN "NameError"
    ELSE "KeyError"

\* views.py:185-194 and services.py:332-350: a priced order is charged at
\* the gateway and keeps the charge id and response; a zero-total order is
\* marked paid.  A gateway failure raises (raise_for_status).
\* The courtesy save runs inside transaction.atomic() and fires on_order_paid,
\* which hands its tasks to the broker at once (signals.py:25-26).
SettleOrder(db, oid, gateway_ok, t) ==
    IF db.orders[oid].total_amount > 0
    THEN IF gateway_ok
         THEN [error |-> "", tasks |-> <<>>,
               db |-> [db EXCEPT !.orders[oid].payment_id = "pay_new",
                                 !.orders[oid].payment_data = "charge",
                                 !.gateway = Append(@, "payments")]]
         ELSE [error |-> "HTTPError", tasks |-> <<>>,
               db |-> [db EXCEPT !.gateway = Append(@, "payments")]]
    ELSE [error |-> "",
          tasks |-> on_order_paid(db.tickets, oid, FALSE, "pago", {"status", "paid_at"}),
          db |-> [db EXCEPT !.orders[oid] = MarkPaid(@, t)]]

\* The whole handler.  Rows written inside transaction.atomic() are rolled
\* back when the block exits by an exception (views.py:121, 200-206); a
\* request already sent to the gateway stays sent.  The lines after the
\* ticket loop (183-198) run only when the loop raises nothing.
OrderViewSet_create(user, itemsData, gateway_ok) ==
    LET unchanged == [orders |-> orders, items |-> items, tickets |-> tickets,
                      gateway |-> gateway]
        oid == Len(orders) + 1
        written == [orders |-> Append(orders, NewOrder(user, TotalAmount(itemsData))),
                    items |-> items \o OrderItemsToCreate(itemsData, oid),
                    tickets |-> tickets,
                    gateway |-> gateway]
        settled == SettleOrder(written, oid, gateway_ok, now)
    IN IF ~OrderCreateValid(itemsData)
       THEN [status |-> 400, error |-> "ValidationError", db |-> unchanged,
             tasks_in_tx |-> <<>>]
       ELSE IF AssemblyRejection(itemsData) # 0
       THEN [status |-> AssemblyRejection(itemsData), error |-> "rejected", db |-> unchanged,
             tasks_in_tx |-> <<>>]
       ELSE IF TicketLoopError(itemsData) # ""
       THEN [status |-> 500, error |-> TicketLoopError(itemsData), db |-> unchanged,
             tasks_in_tx |-> <<>>]
       ELSE IF settled.error # ""
       THEN [status |-> 500, error |-> settled.error,
             db |-> [unchanged EXCEPT !.gateway = settled.db.gateway],
             tasks_in_tx |-> settled.tasks]
       ELSE [status |-> 201, error |-> "", db |-> settled.db,
             tasks_in_tx |-> settled.tasks]

CreateOrder(key, itemsData, gateway_ok) ==
    /\ nreq < MaxRequests
    /\ LET r == OrderViewSet_create(Buyer, itemsData, gateway_ok)
       IN /\ orders' = r.db.orders
          /\ items' = r.db.items
          /\ tickets' = r.db.tickets
          /\ gateway' = r.db.gateway
          /\ taskQueue' = taskQueue \o r.tasks_in_tx
          /\ resp' = [op |-> "create", status |-> r.status, key |-> key,
                      req |-> itemsData, gateway_ok |-> gateway_ok, error |-> r.error,
                      enqueued_in_tx |-> EnqueuedInTx("OrderViewSet.create", r.tasks_in_tx)]
    /\ nreq' = nreq + 1
    /\ now' = now + 1
    /\ UNCHANGED <<users, webhooks, gen, genRuns, emailLogs, mail, jobs, checkin, page, qr, asaas>>

----------------------------------------------------------------------------
(* views.py: UserRegistrationAPIView; serializers.py: UserSerializer *)

RegistrationEmails == {"buyer@example.com", "new@example.com", Null}

EmailTaken(email) == \E k \in DOMAIN users : users[k].email = email

SendWelcomeEmailTask(uid) == [task |-> "send_welcome_email_task", arg |-> uid]

\* serializers.py:34-52 and views.py:56-62: a missing email and an email
\* already in the table (models.py:46, unique) fail validation; otherwise the
\* user is saved and the welcome task is handed to the broker, whose refusal
\* is logged and ignored.
UserRegistrationAPIView_post(email, env) ==
    IF email = Null \/ EmailTaken(email)
    THEN [status |-> 400, users |-> users, tasks |-> <<>>]
    ELSE [status |-> 201,
          users |-> Append(users, [email |-> email, asaas_customer_id |-> Null]),
          tasks |-> IF env = "broker_down" THEN <<>>
                    ELSE <<SendWelcomeEmailTask(Len(users) + 1)>>]

Register(key, email, env) ==
    /\ nreq < MaxRequests
    /\ LET r == UserRegistrationAPIView_post(email, env)
       IN /\ users' = r.users
          /\ taskQueue' = taskQueue \o r.tasks
          /\ resp' = [op |-> "register", status |-> r.status, key |-> key,
                      req |-> email, env |-> env,
                      enqueued_in_tx |-> EnqueuedInTx("UserRegistrationAPIView", r.tasks)]
    /\ nreq' = nreq + 1
    /\ now' = now + 1
    /\ UNCHANGED <<orders, items, tickets, webhooks, gateway, gen, genRuns, emailLogs, mail, jobs, checkin, page, qr, asaas>>

InitCreate == InitFrom({<<>>})

NextCreate ==
    \/ \E key \in IdempotencyKeys, email \in RegistrationEmails, env \in {"ok", "broker_down"} :
          Register(key, email, env)
    \/ \E key \in IdempotencyKeys, itemsData \in ItemLists, gateway_ok \in BOOLEAN :
          CreateOrder(key, itemsData, gateway_ok)

SpecCreate == InitCreate /\ [][NextCreate]_vars

----------------------------------------------------------------------------
(* tasks.py: process_ticket_generation, run by concurrent workers *)

Workers == {"w1", "w2"}

\* tasks.py:129-155
_validate_order_for_ticket_generation(oid) ==
    /\ orders[oid].status = "pago"
    /\ orders[oid].state = "ativo"
    /\ TicketsOf(oid) = <<>>
    /\ ItemsOf(oid) # <<>>

\* models.py:220: qr_code defaults to uuid.uuid4(), a draw from the space
\* of UUIDs, here wide enough for two batches of MaxQuantity tickets.
UuidSpace == 1..(2 * MaxQuantity + 1)

\* models.py:217-228: a Ticket built by Ticket(order=..., order_item=...)
\* with the qr_code its default drew.
NewTicket(oid, iid, code) ==
    [order |-> oid, order_item |-> iid, qr_code |-> code,
     is_redeemed |-> FALSE, redeemed_at |-> 0, redeemed_by_staff |-> "",
     holder_name |-> "", holder_email |-> ""]

_create_tickets_for_first_item(oid, codes) ==
    [n \in 1..items[ItemsOf(oid)[1]].quantity |-> NewTicket(oid, ItemsOf(oid)[1], codes[n])]

\* tasks.py:158-174: quantity blank tickets for every OrderItem of the
\* order; codes holds the qr_code drawn for each, in order.
_create_tickets_for_order(oid, codes) ==
    LET blank == Flatten([k \in 1..Len(ItemsOf(oid)) |->
                            [j \in 1..items[ItemsOf(oid)[k]].quantity |-> ItemsOf(oid)[k]]])
    IN [n \in 1..Len(blank) |-> NewTicket(oid, blank[n], codes[n])]

QrCodeUniqueNotEnforced(rows) == TRUE

\* models.py:220: unique=True on qr_code.  The rows to insert are accepted
\* when their codes differ from one another and from every stored code.
QrCodeUnique(rows) ==
    /\ \A a, b \in DOMAIN rows : a # b => rows[a].qr_code # rows[b].qr_code
    /\ \A a \in DOMAIN rows, t \in DOMAIN tickets : rows[a].qr_code # tickets[t].qr_code

\* tasks.py:46-63: a worker takes one execution, fetches the order with its
\* items and tickets, and validates it.  A missing order ends the execution
\* with TicketGenerationError, an ineligible one with a message.
GenFetch(w, oid) ==
    /\ gen[w].pc = "idle"
    /\ genRuns < MaxGenRuns
    /\ genRuns' = genRuns + 1
    /\ gen' = [gen EXCEPT ![w] =
                 IF oid \notin DOMAIN orders
                 THEN [pc |-> "idle", order |-> oid, result |-> "TicketGenerationError"]
                 ELSE IF ~_validate_order_for_ticket_generation(oid)
                 THEN [pc |-> "idle", order |-> oid, result |-> "not_eligible"]
                 ELSE [pc |-> "validated", order |-> oid, result |-> "running"]]
    /\ UNCHANGED <<users, orders, items, tickets, webhooks, taskQueue, gateway,
                   now, nreq, resp, emailLogs, mail, jobs, checkin, page, qr, asaas>>

\* tasks.py:65-80: the validated execution creates the tickets in one
\* transaction; a database error, a refused qr_code among them, rolls the
\* batch back and ends the execution with TicketGenerationError.
GenCreate(w, db_ok) ==
    /\ gen[w].pc = "validated"
    /\ \E codes \in [1..SumQuantity(gen[w].order) -> UuidSpace] :
          LET rows == _create_tickets_for_order(gen[w].order, codes)
              stored == db_ok /\ QrCodeUnique(rows)
          IN /\ tickets' = IF stored THEN tickets \o rows ELSE tickets
             /\ gen' = [gen EXCEPT ![w].pc = "idle",
                                   ![w].result = IF stored THEN "generated"
                                                 ELSE "TicketGenerationError"]
    /\ UNCHANGED <<users, orders, items, webhooks, taskQueue, gateway,
                   now, nreq, resp, genRuns, emailLogs, mail, jobs, checkin, page, qr, asaas>>

\* Orders the task can meet: paid or not, active or not, with or without an
\* item, with or without tickets; and a paid one with two items.
GenShapes ==
    [status : {"pendente", "pago"}, state : {"ativo", "cancelado"}, payment_id : {"pay_1"},
     quantity : {0, MaxQuantity}, tickets : {"none", "blank"}]
    \cup
    [status : {"pago"}, state : {"ativo"}, payment_id : {"pay_1"},
     quantity : {1}, second : {1}, tickets : {"none"}]

InitGen == InitFrom({<<a>> : a \in GenShapes})

NextGen ==
    \/ \E w \in Workers, oid \in 1..(Len(orders) + 1) : GenFetch(w, oid)
    \/ \E w \in Workers, db_ok \in BOOLEAN : GenCreate(w, db_ok)

SpecGen == InitGen /\ [][NextGen]_vars

----------------------------------------------------------------------------
(* views.py: TicketAssignmentView *)

\* Holder data a client may send: well-formed, or without an email.
AssignmentHolders ==
    {[holder_name |-> "Ana", holder_email |-> "ana@example.com"],
     [holder_name |-> "Ana", holder_email |-> Null]}

\* views.py:299-326.  get_queryset names Ticket, which the module does not
\* bind (views.py:44), so get_object raises NameError before anything is
\* read.  With the name bound: a ticket of another user's order is not
\* found, an assigned ticket is refused, bad holder data is refused;
\* otherwise the ticket is saved, the email task is handed to the broker,
\* and the response is built with TicketSerializer, a name views.py:38 does
\* not import either.
TicketAssignmentView_update(user, tid, holder) ==
    LET refused(code, err) == [status |-> code, error |-> err, tickets |-> tickets,
                               tasks |-> <<>>]
    IN IF "Ticket" \notin ViewsModelNames THEN refused(500, "NameError")
       ELSE IF tid \notin DOMAIN tickets \/ orders[tickets[tid].order].user # user
       THEN refused(404, "NotFound")
       ELSE IF tickets[tid].holder_name # "" \/ tickets[tid].holder_email # ""
       THEN refused(400, "already assigned")
       ELSE IF holder.holder_email = Null THEN refused(400, "ValidationError")
       ELSE [status |-> 500, error |-> "NameError",
             tickets |-> [tickets EXCEPT ![tid].holder_name = holder.holder_name,
                                         ![tid].holder_email = holder.holder_email],
             tasks |-> <<SendAssignedTicketEmailTask(tid)>>]

AssignTicket(tid, holder) ==
    /\ nreq < MaxRequests
    /\ LET r == TicketAssignmentView_update(Buyer, tid, holder)
       IN /\ tickets' = r.tickets
          /\ taskQueue' = taskQueue \o r.tasks
          /\ resp' = [op |-> "assign", status |-> r.status, ticket |-> tid,
                      req |-> holder, error |-> r.error,
                      enqueued_in_tx |-> EnqueuedInTx("TicketAssignmentView", r.tasks)]
    /\ nreq' = nreq + 1
    /\ now' = now + 1
    /\ UNCHANGED <<users, orders, items, webhooks, gateway, gen, genRuns, emailLogs, mail, jobs, checkin, page, qr, asaas>>

NextAssign ==
    \E tid \in 1..(Len(tickets) + 1), holder \in AssignmentHolders : AssignTicket(tid, holder)

----------------------------------------------------------------------------
(* views.py: OrderViewSet, the actions it inherits from ModelViewSet *)

\* serializers.py:106-125: the fields of OrderSerializer a client may
\* write, those of Order that Meta.read_only_fields does not list.
OrderSerializerWritable == {"total_amount", "expires_at", "payment_method"}

\* Amounts a client may send.
UpdateAmounts == {1}

\* views.py:90-106: OrderViewSet is a ModelViewSet without
\* http_method_names, so PATCH /orders/<id>/ is routed to partial_update,
\* which looks the order up among the user's own (404 otherwise), validates
\* the body with OrderSerializer and saves the instance.  The save names no
\* update_fields, so on_order_paid hands over nothing.
OrderViewSet_partial_update(user, oid, total_amount) ==
    IF oid \notin DOMAIN orders \/ orders[oid].user # user
    THEN [status |-> 404, orders |-> orders, tasks |-> <<>>]
    ELSE [status |-> 200,
          orders |-> IF "total_amount" \in OrderSerializerWritable
                     THEN [orders EXCEPT ![oid].total_amount = total_amount]
                     ELSE orders,
          tasks |-> on_order_paid(tickets, oid, FALSE, orders[oid].status, {})]

UpdateOrder(oid, total_amount) ==
    /\ nreq < MaxRequests
    /\ LET r == OrderViewSet_partial_update(Buyer, oid, total_amount)
       IN /\ orders' = r.orders
          /\ taskQueue' = taskQueue \o r.tasks
          /\ resp' = [op |-> "update", status |-> r.status, order |-> oid,
                      req |-> total_amount,
                      enqueued_in_tx |-> EnqueuedInTx("OrderViewSet.partial_update", r.tasks)]
    /\ nreq' = nreq + 1
    /\ now' = now + 1
    /\ UNCHANGED <<users, items, tickets, webhooks, gateway, gen, genRuns, emailLogs,
                   mail, jobs, checkin, page, qr, asaas>>

NextOrderUpdate ==
    \E oid \in 1..(Len(orders) + 1), total_amount \in UpdateAmounts : UpdateOrder(oid, total_amount)

----------------------------------------------------------------------------
(* All HTTP requests together, on a database holding one pending charged   *)
(* order whose tickets have holders or are still unassigned.               *)

RequestShapes ==
    [status : {"pendente"}, state : {"ativo"}, payment_id : {"pay_1"},
     quantity : {MaxQuantity}, tickets : {"held", "blank"}]

InitRequests == InitFrom({<<a>> : a \in RequestShapes})

NextRequests == NextWebhook \/ NextCreate \/ NextAssign \/ NextOrderUpdate

SpecRequests == InitRequests /\ [][NextRequests]_vars

----------------------------------------------------------------------------
(* services.py: EmailService.send_email_with_attachment and its callers *)

\* Who makes the attempt: EmailService.send_welcome_email and
\* EmailService.send_ticket pass a User row; the send_assigned_ticket_email
\* task passes the dict {'email': ticket.holder_email} (tasks.py:397).
MailCallers == {"send_welcome_email", "send_ticket", "send_assigned_ticket_email"}

UserArgument(caller) ==
    IF caller = "send_assigned_ticket_email" THEN "dict" ELSE "User"

EmailTypeOf(caller) ==
    IF caller = "send_welcome_email" THEN "welcome" ELSE "ticket_confirmation"

\* How the attempt goes at the provider: accepted (2xx), answered with
\* another status, not tried for lack of SENDGRID_API_KEY, or an exception.
MailOutcomes == {"sent", "provider_error", "no_api_key", "exception"}

\* user.email is an attribute of a User row, not of a dict.
HasEmailAttribute(userArg) == userArg = "User"

\* models.py:280: EmailLog.user takes a User instance only.
EmailLogInsertable(userArg) == userArg = "User"

\* services.py:53-123.  Gives the EmailLog rows written, the value returned
\* and whether the call raised.  A failure inside the try block (the
\* provider's exception, user.email at line 75, the EmailLog insert at lines
\* 58 and 95) enters the except block, which reads user.email at line 113
\* before it writes the failure row at line 114.
send_email_with_attachment(userArg, email_type, outcome) ==
    LET row(ok) == [email_type |-> email_type, success |-> ok]
        tryFails ==
            \/ outcome = "exception"
            \/ outcome # "no_api_key" /\ ~HasEmailAttribute(userArg)
            \/ ~EmailLogInsertable(userArg)
    IN IF ~tryFails
       THEN [logs |-> <<row(outcome = "sent")>>, returned |-> outcome = "sent",
             raised |-> FALSE]
       ELSE IF HasEmailAttribute(userArg) /\ EmailLogInsertable(userArg)
       THEN [logs |-> <<row(FALSE)>>, returned |-> FALSE, raised |-> FALSE]
       ELSE [logs |-> <<>>, returned |-> FALSE, raised |-> TRUE]

\* One email attempt by one caller.
SendEmail(caller, outcome) ==
    /\ mail.attempts < MaxEmailAttempts
    /\ LET r == send_email_with_attachment(UserArgument(caller), EmailTypeOf(caller), outcome)
       IN /\ emailLogs' = emailLogs \o r.logs
          /\ mail' = [caller |-> caller, outcome |-> outcome, raised |-> r.raised,
                      attempts |-> mail.attempts + 1]
    /\ UNCHANGED <<users, orders, items, tickets, webhooks, taskQueue, gateway,
                   now, nreq, resp, gen, genRuns, jobs, checkin, page, qr, asaas>>

InitEmail == InitFrom({<<>>})

NextEmail == \E caller \in MailCallers, outcome \in MailOutcomes : SendEmail(caller, outcome)

SpecEmail == InitEmail /\ [][NextEmail]_vars

----------------------------------------------------------------------------
(* tasks.py: the Celery tasks, their retry options and their executions *)

TaskNames ==
    {"process_ticket_generation", "retry_ticket_email",
     "send_assigned_ticket_email", "send_welcome_email_task"}

\* tasks.py:26 (retry_kwargs), 213, 303, 380: every task allows 3 retries.
max_retries == 3

\* tasks.py:25, 303: autoretry_for=(Exception,).
autoretry_for(task) == task \in {"process_ticket_generation", "send_welcome_email_task"}

\* What one execution of a task's body can meet: nothing goes wrong, the
\* row it names is missing (process_ticket_generation turns a missing order
\* and a failed ticket insert into TicketGenerationError, tasks.py:54-57 and
\* 73-75), the email provider refuses the message (EmailFailed), or
\* something else fails (database, rendering).  The try block of
\* process_ticket_generation (tasks.py:46-80) calls no retry, so it meets no
\* MaxRetriesExceededError.
BodyConditions(task) ==
    CASE task = "process_ticket_generation" -> {"ok", "TicketGenerationError", "Exception"}
      [] task = "retry_ticket_email" -> {"ok", "DoesNotExist", "EmailFailed", "Exception"}
      [] task = "send_assigned_ticket_email" -> {"ok", "DoesNotExist", "EmailFailed", "Exception"}
      [] task = "send_welcome_email_task" -> {"ok", "Exception"}

\* tasks.py:189-209: the failure row _log_failed_ticket_generation writes.
_log_failed_ticket_generation ==
    <<[email_type |-> "ticket_confirmation", success |-> FALSE]>>

\* The EmailLog rows one execution writes.  retry_ticket_email sends through
\* EmailService.send_ticket and send_welcome_email_task through
\* send_welcome_email, both with a User row; send_assigned_ticket_email
\* calls send_email_with_attachment itself (tasks.py:407-417).
\* process_ticket_generation writes a row only in its handler of
\* MaxRetriesExceededError (tasks.py:86-90).
TaskLogs(task, cond) ==
    CASE task = "process_ticket_generation" ->
            IF cond = "MaxRetriesExceededError" THEN _log_failed_ticket_generation ELSE <<>>
      [] task = "retry_ticket_email" /\ cond \in {"ok", "EmailFailed"} ->
            send_email_with_attachment(UserArgument("send_ticket"), EmailTypeOf("send_ticket"),
                IF cond = "ok" THEN "sent" ELSE "provider_error").logs
      [] task = "send_assigned_ticket_email" /\ cond = "EmailFailed" ->
            send_email_with_attachment(UserArgument(task), EmailTypeOf(task),
                                       "provider_error").logs
      [] task = "send_welcome_email_task" /\ cond = "ok" ->
            send_email_with_attachment(UserArgument("send_welcome_email"),
                                       EmailTypeOf("send_welcome_email"), "sent").logs
      [] OTHER -> <<>>

\* How the body of the task leaves: it returns, it raises, or it calls
\* self.retry.  process_ticket_generation re-raises TicketGenerationError
\* (tasks.py:82-84) and retries anything else (92-97); retry_ticket_email
\* re-raises Ticket.DoesNotExist (239-241) and retries anything else
\* (243-245); send_assigned_ticket_email logs Ticket.DoesNotExist and
\* returns (424-425) and retries anything else (426-428);
\* send_welcome_email_task retries every exception (313-314).
TaskBody(task, cond) ==
    CASE cond = "ok" -> "return"
      [] task = "process_ticket_generation" /\ cond = "TicketGenerationError" -> "raise"
      [] task = "retry_ticket_email" /\ cond = "DoesNotExist" -> "raise"
      [] task = "send_assigned_ticket_email" /\ cond = "DoesNotExist" -> "return"
      [] OTHER -> "self.retry"

Task_retry_OffByOne(retries) == IF retries > max_retries THEN "raise" ELSE "Retry"

Task_retry_Unbounded(retries) == "Retry"

\* self.retry(exc=e) on the execution whose request.retries is retries: the
\* message is sent again with retries + 1 and Retry is raised, unless that
\* would exceed max_retries, in which case e is raised.
Task_retry(retries) == IF retries + 1 > max_retries THEN "raise" ELSE "Retry"

\* One execution of the task as the worker runs it: the body, then, for a
\* task declared with autoretry_for=(Exception,), a retry for any exception
\* the body raised other than Retry.
RunTask(task, retries, cond) ==
    LET body == TaskBody(task, cond)
        left == IF body = "self.retry" THEN Task_retry(retries) ELSE body
    IN IF left = "raise" /\ autoretry_for(task) THEN Task_retry(retries) ELSE left

\* Everything an execution can meet.
TaskConditions ==
    {"ok", "DoesNotExist", "TicketGenerationError", "EmailFailed", "Exception"}

\* The id a message carries: of an order, a ticket or a user.
TaskArguments == 1..MaxQuantity

\* task.delay(arg): a new message, never executed yet.
Enqueue(task, arg) ==
    /\ Len(jobs) < MaxEnqueues
    /\ jobs' = Append(jobs, [task |-> task, arg |-> arg, retries |-> 0, executions |-> 0,
                             state |-> "PENDING", raised |-> "none"])
    /\ UNCHANGED <<users, orders, items, tickets, webhooks, taskQueue, gateway,
                   now, nreq, resp, gen, genRuns, emailLogs, mail, checkin, page, qr, asaas>>

\* The worker executes the pending message of job i once.
Execute(i, cond) ==
    /\ i \in DOMAIN jobs
    /\ jobs[i].state \in {"PENDING", "RETRY"}
    /\ jobs[i].executions < MaxExecutions
    /\ cond \in BodyConditions(jobs[i].task)
    /\ LET r == RunTask(jobs[i].task, jobs[i].retries, cond)
       IN jobs' = [jobs EXCEPT
                     ![i].executions = @ + 1,
                     ![i].raised = IF cond = "ok" THEN "none" ELSE cond,
                     ![i].retries = IF r = "Retry" THEN @ + 1 ELSE @,
                     ![i].state = CASE r = "Retry" -> "RETRY"
                                    [] r = "return" -> "SUCCESS"
                                    [] OTHER -> "FAILURE"]
    /\ emailLogs' = emailLogs \o TaskLogs(jobs[i].task, cond)
    /\ UNCHANGED <<users, orders, items, tickets, webhooks, taskQueue, gateway,
                   now, nreq, resp, gen, genRuns, mail, checkin, page, qr, asaas>>

InitTasks == InitFrom({<<>>})

NextTasks ==
    \/ \E task \in TaskNames, arg \in TaskArguments : Enqueue(task, arg)
    \/ \E i \in 1..MaxEnqueues, cond \in TaskConditions :
          Execute(i, cond)

SpecTasks == InitTasks /\ [][NextTasks]_vars

\* The worker keeps executing the messages it holds.
SpecTasksLive ==
    /\ SpecTasks
    /\ \A i \in 1..MaxEnqueues :
          WF_vars(\E cond \in TaskConditions :
                     Execute(i, cond))

----------------------------------------------------------------------------
(* models.py: Ticket.redeem *)

\* The staff_member argument: absent (None), blank, or a staff name.
StaffMembers == {Null, "", "staff1", "staff2"}

redeem_Unchecked(ticket, staff_member, at) ==
    [raised |-> "none",
     ticket |-> [ticket EXCEPT !.is_redeemed = TRUE, !.redeemed_at = at,
                               !.redeemed_by_staff = staff_member]]

\* models.py:246-255: a redeemed ticket raises ValidationError; otherwise
\* the flag and the time are set, the staff member too when one is given,
\* and the ticket is saved.
redeem(ticket, staff_member, at) ==
    IF ticket.is_redeemed
    THEN [raised |-> "ValidationError", ticket |-> ticket]
    ELSE [raised |-> "none",
          ticket |-> [ticket EXCEPT
                        !.is_redeemed = TRUE,
                        !.redeemed_at = at,
                        !.redeemed_by_staff =
                            IF staff_member \notin {Null, ""} THEN staff_member ELSE @]]

\* One call of redeem on ticket tid as the table holds it.
RedeemTicket(tid, staff_member) ==
    /\ nreq < MaxRequests
    /\ LET r == redeem(tickets[tid], staff_member, now)
       IN /\ tickets' = [tickets EXCEPT ![tid] = r.ticket]
          /\ resp' = [op |-> "redeem", status |-> 0, ticket |-> tid,
                      req |-> staff_member, error |-> r.raised, enqueued_in_tx |-> 0]
    /\ nreq' = nreq + 1
    /\ now' = now + 1
    /\ UNCHANGED <<users, orders, items, webhooks, taskQueue, gateway, gen, genRuns,
                   emailLogs, mail, jobs, checkin, page, qr, asaas>>

\* A paid order whose tickets are not redeemed yet (with or without a
\* holder) or redeemed already.
RedeemShapes ==
    [status : {"pago"}, state : {"ativo"}, payment_id : {"pay_1"},
     quantity : {1, MaxQuantity}, tickets : {"held", "blank", "redeemed"}]

InitRedeem == InitFrom({<<a>> : a \in RedeemShapes})

NextRedeem == \E tid \in DOMAIN tickets, staff_member \in StaffMembers : RedeemTicket(tid, staff_member)

SpecRedeem == InitRedeem /\ [][NextRedeem]_vars

----------------------------------------------------------------------------
(* Check-in service (specification section 4.6; tests.py:219-298) *)

\* The attempt counter of a token lives for a fixed window and admits
\* this many attempts in it.
CHECKIN_WINDOW == 60
CHECKIN_LIMIT == 5

\* Time that passes before an attempt: a second, or a whole window.
CheckInDelays == {1, CHECKIN_WINDOW}

\* The counter of the token at time at: gone once its window is over.
AttemptsAt(token, at) ==
    IF checkin.expiry[token] # 0 /\ at >= checkin.expiry[token] THEN 0
    ELSE checkin.attempts[token]

RateLimitedOffByOne(count) == count > CHECKIN_LIMIT

\* An attempt is refused when the window holds the limit already.
RateLimited(count) == count >= CHECKIN_LIMIT

AlreadyPresentNever(present, token) == FALSE

AlreadyPresent(present, token) == present[token]

UpdatePresenceTask(token) == [task |-> "update_presence", arg |-> token]

\* One check-in attempt at time at.  The rate limit comes first; an
\* admitted attempt is counted (the first of a window starts it), then
\* takes the token's lock (503 when the wait runs out), looks the attendee
\* up (404 for an unknown token) and either reports that the attendee is
\* present already or makes the attendee present and schedules the
\* presence update.
CheckInService(token, at, lock_ok) ==
    LET count == AttemptsAt(token, at)
        counted == [checkin EXCEPT
                      !.attempts[token] = count + 1,
                      !.expiry[token] = IF count = 0 THEN at + CHECKIN_WINDOW ELSE @]
        answer(code, msg, lk, lu, st, tasks) ==
            [status |-> code, message |-> msg, locked |-> lk, looked_up |-> lu,
             checkin |-> st, tasks |-> tasks]
    IN IF RateLimited(count)
       THEN answer(429, "Too many check-in attempts", FALSE, FALSE, checkin, <<>>)
       ELSE IF ~lock_ok
       THEN answer(503, "Service unavailable", FALSE, FALSE, counted, <<>>)
       ELSE IF token \notin Attendees
       THEN answer(404, "Invalid token", TRUE, TRUE, counted, <<>>)
       ELSE IF AlreadyPresent(checkin.present, token)
       THEN answer(200, "User already checked in.", TRUE, TRUE, counted, <<>>)
       ELSE answer(200, "Check-in successful.", TRUE, TRUE,
                   [counted EXCEPT !.present[token] = TRUE],
                   <<UpdatePresenceTask(token)>>)

CheckIn(token, delay, lock_ok) ==
    /\ checkin.n < MaxCheckIns
    /\ LET r == CheckInService(token, now + delay, lock_ok)
       IN /\ checkin' = [r.checkin EXCEPT !.n = @ + 1]
          /\ taskQueue' = taskQueue \o r.tasks
          /\ resp' = [op |-> "checkin", status |-> r.status, token |-> token,
                      message |-> r.message, locked |-> r.locked,
                      looked_up |-> r.looked_up, enqueued_in_tx |-> 0]
    /\ now' = now + delay
    /\ UNCHANGED <<users, orders, items, tickets, webhooks, gateway, nreq, gen, genRuns,
                   emailLogs, mail, jobs, page, qr, asaas>>

InitCheckIn == InitFrom({<<>>})

NextCheckIn ==
    \E token \in CheckInTokens, delay \in CheckInDelays, lock_ok \in BOOLEAN :
        CheckIn(token, delay, lock_ok)

SpecCheckIn == InitCheckIn /\ [][NextCheckIn]_vars

----------------------------------------------------------------------------
(* process_ticket_page (tasks.py:100-126) *)

MaxPageLen == 3

\* The ids a page may name: those of the stored tickets and one that is not
\* stored.
PageIds == 1..(MaxQuantity + 1)

\* What the processing of one stored ticket can meet: the PDF is rendered
\* and the email sent, send_ticket answers False, the rendering raises,
\* the sending raises.
TicketOutcomes == {"sent", "not_sent", "pdf_error", "email_error"}

\* tasks.py:108: Ticket.objects.in_bulk(ticket_ids), the stored tickets
\* among those named, by id.
in_bulk(tks, ticket_ids) == {ticket_ids[k] : k \in DOMAIN ticket_ids} \cap DOMAIN tks

\* One iteration with no try block around it: the lookup of an id that is
\* not stored and a failing service raise out of the loop.
process_ticket_Unguarded(found, ticket_id, outcome) ==
    IF ticket_id \notin found \/ outcome \in {"pdf_error", "email_error"}
    THEN [successful |-> 0, failed |-> 0, raised |-> TRUE]
    ELSE IF outcome = "sent"
         THEN [successful |-> 1, failed |-> 0, raised |-> FALSE]
         ELSE [successful |-> 0, failed |-> 1, raised |-> FALSE]

\* tasks.py:109-123: one iteration of the loop.  tickets[ticket_id] raises
\* KeyError for an id that is not stored; that and every exception of the
\* PDF and email services is caught and counted as failed.
process_ticket(found, ticket_id, outcome) ==
    IF ticket_id \notin found THEN [successful |-> 0, failed |-> 1, raised |-> FALSE]
    ELSE IF outcome \in {"pdf_error", "email_error"}
         THEN [successful |-> 0, failed |-> 1, raised |-> FALSE]
         ELSE IF outcome = "sent"
              THEN [successful |-> 1, failed |-> 0, raised |-> FALSE]
              ELSE [successful |-> 0, failed |-> 1, raised |-> FALSE]

\* tasks.py:101-108: the task starts on its argument.
PageStart(ticket_ids) ==
    /\ page.pos = 0
    /\ page' = [page EXCEPT !.ids = ticket_ids, !.pos = 1]
    /\ UNCHANGED <<users, orders, items, tickets, webhooks, taskQueue, gateway,
                   now, nreq, resp, gen, genRuns, emailLogs, mail, jobs, checkin, qr, asaas>>

\* tasks.py:109-123: the next iteration.
PageStep(outcome) ==
    /\ page.pos \in DOMAIN page.ids
    /\ ~page.raised /\ ~page.returned
    /\ LET r == process_ticket(in_bulk(tickets, page.ids), page.ids[page.pos], outcome)
       IN page' = [page EXCEPT !.pos = @ + 1,
                               !.successful = @ + r.successful,
                               !.failed = @ + r.failed,
                               !.raised = r.raised]
    /\ UNCHANGED <<users, orders, items, tickets, webhooks, taskQueue, gateway,
                   now, nreq, resp, gen, genRuns, emailLogs, mail, jobs, checkin, qr, asaas>>

\* tasks.py:125-126: the loop is over, the counters are returned.
PageReturn ==
    /\ page.pos = Len(page.ids) + 1
    /\ ~page.raised /\ ~page.returned
    /\ page' = [page EXCEPT !.returned = TRUE,
                             !.result = [success |-> page.successful,
                                         failed |-> page.failed]]
    /\ UNCHANGED <<users, orders, items, tickets, webhooks, taskQueue, gateway,
                   now, nreq, resp, gen, genRuns, emailLogs, mail, jobs, checkin, qr, asaas>>

PageShapes ==
    [status : {"pago"}, state : {"ativo"}, payment_id : {"pay_1"},
     quantity : {MaxQuantity}, tickets : {"held"}]

InitPage == InitFrom({<<a>> : a \in PageShapes})

NextPage ==
    \/ \E n \in 0..MaxPageLen : \E ticket_ids \in [1..n -> PageIds] : PageStart(ticket_ids)
    \/ \E outcome \in TicketOutcomes : PageStep(outcome)
    \/ PageReturn

SpecPage == InitPage /\ [][NextPage]_vars

----------------------------------------------------------------------------
(* PDFService.generate_qr_code_image (services.py:259-300) *)

MaxQrCalls == 3

\* services.py:270: the cache key of a ticket, its event and its code.
cache_key(ticket) == <<items[ticket.order_item].ticket_class, ticket.qr_code>>

\* services.py:259-300.  The read of the cache is inside a try block
\* (271-275); the rendering (277-293) and the write cache.set (296) are
\* not, so an exception of either leaves the function.
generate_qr_code_image(cache, ticket, read_ok, render_ok, write_ok) ==
    IF read_ok /\ cache_key(ticket) \in cache
    THEN [cache |-> cache, result |-> "image", raised |-> FALSE, from_cache |-> TRUE]
    ELSE IF ~render_ok
         THEN [cache |-> cache, result |-> "none", raised |-> TRUE, from_cache |-> FALSE]
         ELSE IF ~write_ok
              THEN [cache |-> cache, result |-> "none", raised |-> TRUE, from_cache |-> FALSE]
              ELSE [cache |-> cache \cup {cache_key(ticket)},
                    result |-> "image", raised |-> FALSE, from_cache |-> FALSE]

\* A call of generate_qr_code_image for a stored ticket.
GenerateQr(tid, read_ok, render_ok, write_ok) ==
    /\ qr.n < MaxQrCalls
    /\ LET r == generate_qr_code_image(qr.cache, tickets[tid], read_ok, render_ok, write_ok)
       IN qr' = [cache |-> r.cache, n |-> qr.n + 1,
                 last |-> [ticket |-> tid, read_ok |-> read_ok, render_ok |-> render_ok,
                           write_ok |-> write_ok, result |-> r.result,
                           raised |-> r.raised, from_cache |-> r.from_cache]]
    /\ UNCHANGED <<users, orders, items, tickets, webhooks, taskQueue, gateway,
                   now, nreq, resp, gen, genRuns, emailLogs, mail, jobs, checkin, page, asaas>>

\* services.py:296: an entry lives for one hour, then the cache drops it.
CacheExpire(key) ==
    /\ key \in qr.cache
    /\ qr' = [qr EXCEPT !.cache = @ \ {key}]
    /\ UNCHANGED <<users, orders, items, tickets, webhooks, taskQueue, gateway,
                   now, nreq, resp, gen, genRuns, emailLogs, mail, jobs, checkin, page, asaas>>

InitQr == InitFrom({<<a>> : a \in PageShapes})

NextQr ==
    \/ \E tid \in DOMAIN tickets, read_ok \in BOOLEAN, render_ok \in BOOLEAN, write_ok \in BOOLEAN :
          GenerateQr(tid, read_ok, render_ok, write_ok)
    \/ \E key \in qr.cache : CacheExpire(key)

SpecQr == InitQr /\ [][NextQr]_vars

----------------------------------------------------------------------------
(* AsaasService (services.py:313-350) as OrderViewSet.create calls it *)

MaxCharges == 3

\* Request processes that may run at the same time.
Procs == {"r1", "r2"}

\* Who calls: ensure_customer called on its own in autocommit
\* (tests/test_services.py:293-347), and create_charge_for_order called from
\* inside the atomic block of OrderViewSet.create (views.py:121, 185-186).
AsaasCallers == {"ensure_customer", "OrderViewSet.create"}

\* The id the gateway gives the next customer it creates.
NewCustomerId == "cus_" \o ToString(Len(SelectSeq(gateway, LAMBDA r : r = "customers")) + 1)

HasCustomerNever(user) == FALSE

\* services.py:314: getattr(user, "asaas_customer_id", None) is truthy.
HasCustomer(user) == user.asaas_customer_id # Null

IdleProc ==
    [pc |-> "idle", caller |-> "none", had_id |-> FALSE, pending |-> Null,
     requests |-> 0, result |-> Null, raised |-> FALSE]

\* services.py:314-315 (and 337 for create_charge_for_order): the call
\* loads the User row and returns its customer id when it has one.
AsaasBegin(p, caller) ==
    /\ asaas.n < MaxCharges
    /\ asaas.proc[p].pc \in {"idle", "done"}
    /\ LET user == users[Buyer]
           started == [IdleProc EXCEPT !.caller = caller, !.had_id = HasCustomer(user)]
       IN asaas' = [n |-> asaas.n + 1,
                    proc |-> [asaas.proc EXCEPT ![p] =
                        IF HasCustomer(user)
                        THEN [started EXCEPT
                                !.result = user.asaas_customer_id,
                                !.pc = IF caller = "ensure_customer" THEN "done"
                                       ELSE "post_payment"]
                        ELSE [started EXCEPT !.pc = "post_customer"]]]
    /\ UNCHANGED <<users, orders, items, tickets, webhooks, taskQueue, gateway,
                   now, nreq, resp, gen, genRuns, emailLogs, mail, jobs, checkin, page, qr>>

\* services.py:324-329: the customer-creation request.  A request the
\* gateway refuses creates no customer there and raises (raise_for_status)
\* before anything is stored.  Otherwise the id is saved
\* on the User row: at once in autocommit, and inside the caller's open
\* transaction when the caller is OrderViewSet.create.
PostCustomer(p, ok) ==
    /\ asaas.proc[p].pc = "post_customer"
    /\ gateway' = Append(gateway, IF ok THEN "customers" ELSE "customers_refused")
    /\ IF ~ok
       THEN /\ asaas' = [asaas EXCEPT !.proc[p].pc = "done", !.proc[p].raised = TRUE,
                                      !.proc[p].requests = @ + 1]
            /\ users' = users
       ELSE IF InAtomicBlock(asaas.proc[p].caller)
       THEN /\ asaas' = [asaas EXCEPT !.proc[p].pc = "post_payment",
                                      !.proc[p].pending = NewCustomerId,
                                      !.proc[p].result = NewCustomerId,
                                      !.proc[p].requests = @ + 1]
            /\ users' = users
       ELSE /\ asaas' = [asaas EXCEPT !.proc[p].pc = "done",
                                      !.proc[p].result = NewCustomerId,
                                      !.proc[p].requests = @ + 1]
            /\ users' = [users EXCEPT ![Buyer].asaas_customer_id = NewCustomerId]
    /\ UNCHANGED <<orders, items, tickets, webhooks, taskQueue,
                   now, nreq, resp, gen, genRuns, emailLogs, mail, jobs, checkin, page, qr>>

\* services.py:339-350 and views.py:121, 200-206: the charge request.  When
\* it succeeds the atomic block commits, the saved customer id with it;
\* when it fails raise_for_status leaves the block by an exception and the
\* transaction is rolled back, the saved customer id with it.
PostPayment(p, ok) ==
    /\ asaas.proc[p].pc = "post_payment"
    /\ gateway' = Append(gateway, "payments")
    /\ asaas' = [asaas EXCEPT !.proc[p].pc = "done", !.proc[p].raised = ~ok,
                              !.proc[p].pending = Null]
    /\ users' = IF ok /\ asaas.proc[p].pending # Null
                THEN [users EXCEPT ![Buyer].asaas_customer_id = asaas.proc[p].pending]
                ELSE users
    /\ UNCHANGED <<orders, items, tickets, webhooks, taskQueue,
                   now, nreq, resp, gen, genRuns, emailLogs, mail, jobs, checkin, page, qr>>

InitAsaas == InitFrom({<<>>})

NextAsaas ==
    \E p \in Procs :
        \/ \E caller \in AsaasCallers : AsaasBegin(p, caller)
        \/ \E ok \in BOOLEAN : PostCustomer(p, ok)
        \/ \E ok \in BOOLEAN : PostPayment(p, ok)

SpecAsaas == InitAsaas /\ [][NextAsaas]_vars

----------------------------------------------------------------------------
(* Properties of the webhook reconciler (SpecWebhook) *)

\* A step that handles one webhook request; resp' holds the request.
WebhookStep == nreq' = nreq + 1 /\ resp'.op = "webhook"

\* The request in r carries the configured secret.
Authentic(r) == r.token = ASAAS_WEBHOOK_SECRET

\* The request in r is a PAYMENT_RECEIVED event with a payment id.
IsPaymentReceived(r) ==
    /\ r.payload.event = "PAYMENT_RECEIVED"
    /\ r.payload.payment.kind = "dict"
    /\ r.payload.payment.id # Null
    /\ r.payload.payment.id # ""

\* The orders whose stored payment id is the one the request in r carries.
OrdersNamedBy(r) == {k \in DOMAIN orders : orders[k].payment_id = r.payload.payment.id}

\* C5: every delivery of an authenticated, well-formed PAYMENT_RECEIVED event
\* for an order (the first and the repeated one alike) is answered 200,
\* leaves the order paid, and adds exactly one row to the audit log.
C5_EachDeliveryAddsOneAuditRow ==
    [][ (/\ WebhookStep
         /\ Authentic(resp')
         /\ IsPaymentReceived(resp')
         /\ resp'.payload.id # Null
         /\ resp'.env = "ok"
         /\ Cardinality(OrdersNamedBy(resp')) = 1)
        => (/\ resp'.status = 200
            /\ \A k \in OrdersNamedBy(resp') : orders'[k].status = "pago"
            /\ Len(webhooks') = Len(webhooks) + 1) ]_vars

\* C6: a delivery of PAYMENT_RECEIVED for an order that is already paid
\* changes no field of any Order and enqueues no task.
C6_RedeliveryIsNoOp ==
    [][ (/\ WebhookStep
         /\ Authentic(resp')
         /\ IsPaymentReceived(resp')
         /\ Cardinality(OrdersNamedBy(resp')) = 1
         /\ \A k \in OrdersNamedBy(resp') : orders[k].status = "pago")
        => (orders' = orders /\ taskQueue' = taskQueue) ]_vars

\* C7: every request carrying the valid secret leaves a new audit row with
\* the provider, the event id, the event type and the raw payload, and no
\* Order changes in a request that left no such row.
C7_AuthenticatedEventIsAudited ==
    [][ (WebhookStep /\ Authentic(resp'))
        => (/\ Len(webhooks') = Len(webhooks) + 1
            /\ webhooks'[Len(webhooks')].provider = "asaas"
            /\ webhooks'[Len(webhooks')].webhook_id = resp'.payload.id
            /\ webhooks'[Len(webhooks')].event_type = resp'.payload.event
            /\ webhooks'[Len(webhooks')].payload = resp'.payload) ]_vars

PaidImpliesPaidAt == \A k \in DOMAIN orders : orders[k].status = "pago" => orders[k].paid_at > 0

C9_ForgedRequestRejected ==
    [][ (WebhookStep /\ ~Authentic(resp'))
        => (/\ resp'.status = 401
            /\ UNCHANGED <<orders, webhooks, taskQueue, items, tickets, users, gateway>>) ]_vars

\* C9 witness: a forged PAYMENT_RECEIVED naming a pending order was rejected.
C9_Witness ==
    /\ resp.op = "webhook" /\ resp.status = 401
    /\ resp.token = "forged"
    /\ IsPaymentReceived(resp)
    /\ \E k \in OrdersNamedBy(resp) : orders[k].status = "pendente"

StructurallyAcceptable(r) == r.payload.payment.kind # "notdict"

----------------------------------------------------------------------------
(* Properties of order creation and registration (SpecCreate) *)

\* The last request was an order creation that passes validation, names
\* existing ticket classes only, and whose gateway call (if any) succeeds.
ValidCreateHandled ==
    /\ resp.op = "create"
    /\ OrderCreateValid(resp.req)
    /\ \A i \in 1..Len(resp.req) : TicketClassExists(resp.req[i].ticket_class_id)
    /\ resp.gateway_ok

RequestedQuantity(req) == SumSeq([i \in 1..Len(req) |-> req[i].quantity])

\* C1: an order-creation request that passes validation and whose gateway
\* call succeeds returns 201, and the order it created has one OrderItem per
\* requested item and, per OrderItem, exactly `quantity` Tickets.
C1_ValidCreateSucceeds ==
    ValidCreateHandled =>
        /\ resp.status = 201
        /\ orders # <<>>
        /\ Len(TicketsOf(Len(orders))) = RequestedQuantity(resp.req)
        /\ \A k \in 1..Len(ItemsOf(Len(orders))) :
              Len(TicketsOfItem(ItemsOf(Len(orders))[k]))
                  = items[ItemsOf(Len(orders))[k]].quantity

\* C2: the order a valid creation request creates has, per item, the ticket
\* class's price as unit_price and unit_price * quantity as subtotal, and the
\* sum of the subtotals as total_amount.
C2_CreatedOrderIsPriced ==
    ValidCreateHandled =>
        /\ orders # <<>>
        /\ Len(ItemsOf(Len(orders))) = Len(resp.req)
        /\ \A k \in 1..Len(ItemsOf(Len(orders))) :
              LET it == items[ItemsOf(Len(orders))[k]]
              IN /\ it.unit_price = TicketClassPrice[resp.req[k].ticket_class_id]
                 /\ it.subtotal = it.unit_price * resp.req[k].quantity
        /\ orders[Len(orders)].total_amount = SumSubtotal(Len(orders))

\* The request in r is one whose mutation can succeed.
Creatable(r) ==
    \/ r.op = "register" /\ r.req # Null
    \/ /\ r.op = "create"
       /\ OrderCreateValid(r.req)
       /\ \A i \in 1..Len(r.req) : TicketClassExists(r.req[i].ticket_class_id)
       /\ r.gateway_ok

\* C4: of two equal creation requests with the same Idempotency-Key, one
\* right after the other, the second gets the first one's (successful)
\* response, creates no row and enqueues no task.
C4_ReplayReturnsFirstResponse ==
    [][ (/\ nreq' = nreq + 1
         /\ resp.op \in {"create", "register"}
         /\ resp'.op = resp.op
         /\ resp'.key = resp.key
         /\ resp'.req = resp.req
         /\ Creatable(resp) /\ Creatable(resp'))
        => (/\ resp'.status = resp.status
            /\ resp'.status = 201
            /\ UNCHANGED <<users, orders, items, tickets, taskQueue>>) ]_vars

----------------------------------------------------------------------------
(* Properties of ticket generation (SpecGen) *)

\* C3: however many executions of process_ticket_generation run for an
\* order, one after another or at once, the order never has more Tickets
\* than the sum of its OrderItem quantities, and has exactly that many once
\* an execution has generated them.
C3_TicketsGeneratedOnce ==
    \A oid \in DOMAIN orders :
        /\ Len(TicketsOf(oid)) <= SumQuantity(oid)
        /\ (\E w \in Workers : gen[w].order = oid /\ gen[w].result = "generated")
              => Len(TicketsOf(oid)) = SumQuantity(oid)

----------------------------------------------------------------------------
(* Properties of the webhook reconciler, continued (SpecWebhook) *)

C12_OnlyMatchingOrdersChange ==
    [][ (WebhookStep /\ Authentic(resp') /\ StructurallyAcceptable(resp'))
        => (/\ \A k \in DOMAIN orders :
                  orders'[k] # orders[k]
                     => (IsPaymentReceived(resp') /\ k \in OrdersNamedBy(resp'))
            /\ ~IsPaymentReceived(resp')
                  => (orders' = orders /\ Len(webhooks') = Len(webhooks) + 1)) ]_vars

\* The part of C12 about Orders alone: only the orders the event names
\* change, and only on PAYMENT_RECEIVED.
C12_OrdersPart ==
    [][ (WebhookStep /\ Authentic(resp') /\ StructurallyAcceptable(resp'))
        => \A k \in DOMAIN orders :
              orders'[k] # orders[k]
                 => (IsPaymentReceived(resp') /\ k \in OrdersNamedBy(resp')) ]_vars

----------------------------------------------------------------------------
(* Properties of order creation, continued (SpecCreate) *)

\* A step that handles one order-creation request; resp' holds the request.
CreateStep == nreq' = nreq + 1 /\ resp'.op = "create"

\* The request breaks a rule of the request format: no item, a quantity
\* below 1, or a holder list whose length is not the quantity.
InvalidRequest(req) ==
    \/ req = <<>>
    \/ \E i \in 1..Len(req) :
          \/ req[i].quantity < 1
          \/ req[i].holders # <<>> /\ Len(req[i].holders[1]) # req[i].quantity

\* Some item of the request names a ticket class that does not exist.
NamesMissingClass(req) ==
    \E i \in 1..Len(req) : ~TicketClassExists(req[i].ticket_class_id)

\* The request can be served: well-formed, existing classes only.
Servable(req) == ~InvalidRequest(req) /\ ~NamesMissingClass(req)

\* The step wrote no Order, OrderItem or Ticket and sent nothing to the gateway.
NothingCreated == UNCHANGED <<orders, items, tickets, gateway>>

\* C13: a servable request whose items all name price-0 ticket classes is
\* answered 201 and creates an order with total_amount 0, status paid and
\* paid_at set, without any request to the payment gateway.
C13_ComplimentaryOrderIsPaid ==
    [][ (/\ CreateStep
         /\ Servable(resp'.req)
         /\ \A i \in 1..Len(resp'.req) : TicketClassPrice[resp'.req[i].ticket_class_id] = 0)
        => (/\ resp'.status = 201
            /\ Len(orders') = Len(orders) + 1
            /\ orders'[Len(orders')].total_amount = 0
            /\ orders'[Len(orders')].status = "pago"
            /\ orders'[Len(orders')].paid_at > 0
            /\ gateway' = gateway) ]_vars

\* C14: a servable request with a non-zero total, handled while the gateway
\* refuses the charge, is answered with an error and leaves no Order,
\* OrderItem or Ticket.
C14_GatewayFailureLeavesNothing ==
    [][ (/\ CreateStep
         /\ Servable(resp'.req)
         /\ TotalAmount(resp'.req) > 0
         /\ ~resp'.gateway_ok)
        => (/\ resp'.status = 500
            /\ UNCHANGED <<orders, items, tickets>>) ]_vars

\* The case of C14: the last creation request reached the gateway and the
\* gateway refused it.
C14_GatewayCallFailed ==
    resp.op = "create" /\ resp.error = "HTTPError" /\ gateway # <<>>

\* C15: a servable request with a non-zero total, handled while the gateway
\* accepts the charge, is answered 201, sends exactly one charge request,
\* and creates a pending order holding the gateway's id and response.
C15_PricedOrderIsChargedOnce ==
    [][ (/\ CreateStep
         /\ Servable(resp'.req)
         /\ TotalAmount(resp'.req) > 0
         /\ resp'.gateway_ok)
        => (/\ resp'.status = 201
            /\ gateway' = Append(gateway, "payments")
            /\ Len(orders') = Len(orders) + 1
            /\ orders'[Len(orders')].status = "pendente"
            /\ orders'[Len(orders')].payment_id = "pay_new"
            /\ orders'[Len(orders')].payment_data = "charge") ]_vars

\* C16: a request with an item naming a ticket class that does not exist is
\* rejected, with 401 when the request is otherwise well-formed (400 when it
\* also breaks the request format), whatever its other items are; nothing
\* is created and the gateway is not called.
C16_MissingClassRejected ==
    [][ (CreateStep /\ NamesMissingClass(resp'.req))
        => (/\ resp'.status \in {400, 401}
            /\ ~InvalidRequest(resp'.req) => resp'.status = 401
            /\ NothingCreated) ]_vars

\* C16 witness: a request whose first item is servable and whose second item
\* names a missing class was answered 401, and the tables are empty.
C16_Witness ==
    /\ resp.op = "create" /\ resp.status = 401
    /\ Len(resp.req) = 2
    /\ TicketClassExists(resp.req[1].ticket_class_id)
    /\ ~TicketClassExists(resp.req[2].ticket_class_id)
    /\ orders = <<>> /\ items = <<>> /\ tickets = <<>> /\ gateway = <<>>

\* C17: a request with no item, with a quantity below 1, or with a holder
\* list whose length is not the quantity is answered 400; nothing is created
\* and the gateway is not called.
C17_InvalidRequestRejected ==
    [][ (CreateStep /\ InvalidRequest(resp'.req))
        => (resp'.status = 400 /\ NothingCreated) ]_vars

\* C17 witness: a request whose first item is servable and whose second item
\* has more holders than its quantity was answered 400, and the tables are
\* empty.
C17_Witness ==
    /\ resp.op = "create" /\ resp.status = 400
    /\ Len(resp.req) = 2
    /\ ~InvalidRequest(<<resp.req[1]>>)
    /\ resp.req[2].holders # <<>>
    /\ Len(resp.req[2].holders[1]) > resp.req[2].quantity
    /\ orders = <<>> /\ items = <<>> /\ tickets = <<>> /\ gateway = <<>>

\* C18: a servable request handled while the gateway accepts charges is
\* answered 201, and for each of its items the j-th Ticket created carries
\* the j-th holder of that item's list, or blank holder fields when the item
\* has no list.
C18_TicketsCarryTheirHolders ==
    [][ (/\ CreateStep
         /\ Servable(resp'.req)
         /\ resp'.gateway_ok)
        => (/\ resp'.status = 201
            /\ Len(items') = Len(items) + Len(resp'.req)
            /\ \A i \in 1..Len(resp'.req) :
                  LET iid == Len(items) + i
                      made == SelectSeq(Ids(tickets'), LAMBDA k : tickets'[k].order_item = iid)
                  IN /\ Len(made) = resp'.req[i].quantity
                     /\ \A j \in 1..Len(made) :
                           IF resp'.req[i].holders # <<>>
                           THEN /\ tickets'[made[j]].holder_name
                                      = resp'.req[i].holders[1][j].holder_name
                                /\ tickets'[made[j]].holder_email
                                      = resp'.req[i].holders[1][j].holder_email
                           ELSE /\ tickets'[made[j]].holder_name = ""
                                /\ tickets'[made[j]].holder_email = "") ]_vars

----------------------------------------------------------------------------
(* Properties of all requests together (SpecRequests) *)

\* The change a queued task reports on is in the tables: the order of the
\* ticket a send_assigned_ticket_email task names is paid, and the user a
\* send_welcome_email_task names exists.
TaskChangeCommitted(task, ords, tks, usrs) ==
    CASE task.task = "send_assigned_ticket_email" ->
            /\ task.arg \in DOMAIN tks
            /\ ords[tks[task.arg].order].status = "pago"
      [] task.task = "send_welcome_email_task" -> task.arg \in DOMAIN usrs
      [] OTHER -> FALSE

AssignStep == nreq' = nreq + 1 /\ resp'.op = "assign"

\* The ticket the request names exists, belongs to an order of the buyer
\* and has a holder name or a holder email already.
AlreadyAssigned(tid) ==
    /\ tid \in DOMAIN tickets
    /\ orders[tickets[tid].order].user = Buyer
    /\ (tickets[tid].holder_name # "" \/ tickets[tid].holder_email # "")

\* The ticket the request names exists, belongs to an order of the buyer
\* and has neither holder name nor holder email.
Unassigned(tid) ==
    /\ tid \in DOMAIN tickets
    /\ orders[tickets[tid].order].user = Buyer
    /\ tickets[tid].holder_name = "" /\ tickets[tid].holder_email = ""

\* C21: assigning a holder to a ticket that already has one is refused with
\* a client error (400 or 409), the tickets stay as they are and no task is
\* handed to the broker.
C21_ReassignmentRejected ==
    [][ (AssignStep /\ AlreadyAssigned(resp'.ticket))
        => (/\ resp'.status \in {400, 409}
            /\ tickets' = tickets
            /\ taskQueue' = taskQueue) ]_vars

\* C22: a well-formed assignment by the owner on an unassigned ticket is
\* answered 200, stores the holder name and email on that ticket alone and
\* hands exactly one send_assigned_ticket_email task for it to the broker.
C22_AssignmentStoredAndMailed ==
    [][ (AssignStep /\ Unassigned(resp'.ticket) /\ resp'.req.holder_email # Null)
        => (/\ resp'.status = 200
            /\ tickets' = [tickets EXCEPT
                             ![resp'.ticket].holder_name = resp'.req.holder_name,
                             ![resp'.ticket].holder_email = resp'.req.holder_email]
            /\ taskQueue' = Append(taskQueue, SendAssignedTicketEmailTask(resp'.ticket))) ]_vars

\* C27: in every state, every paid order has paid_at set and a
\* total_amount equal to the sum of the subtotals of its items.
C27_PaidOrderIsConsistent ==
    \A k \in DOMAIN orders :
        orders[k].status = "pago"
        => (orders[k].paid_at > 0 /\ orders[k].total_amount = SumSubtotal(k))

----------------------------------------------------------------------------
(* Properties of email dispatch (SpecEmail) *)

\* A step that makes one email attempt; mail' holds the attempt.
EmailStep == mail'.attempts = mail.attempts + 1

\* C20: every email attempt, whoever makes it and however it ends, adds
\* exactly one EmailLog row, and that row's success flag says whether the
\* provider accepted the message.
C20_EachAttemptWritesOneLog ==
    [][ EmailStep
        => (/\ Len(emailLogs') = Len(emailLogs) + 1
            /\ emailLogs'[Len(emailLogs')].success = (mail'.outcome = "sent")) ]_vars

\* The part of C20 about attempts made with a User row (welcome email,
\* batch ticket email): one row per attempt, with the matching flag.
C20_UserAttemptsPart ==
    [][ (EmailStep /\ mail'.caller # "send_assigned_ticket_email")
        => (/\ Len(emailLogs') = Len(emailLogs) + 1
            /\ emailLogs'[Len(emailLogs')].success = (mail'.outcome = "sent")
            /\ ~mail'.raised) ]_vars

----------------------------------------------------------------------------
(* Properties of task execution (SpecTasks, SpecTasksLive) *)

\* Job i has been executed by this step.
ExecuteStep(i) ==
    /\ i \in DOMAIN jobs
    /\ i \in DOMAIN jobs'
    /\ jobs'[i].executions = jobs[i].executions + 1

Terminated(i) == i \in DOMAIN jobs /\ jobs[i].state \in {"SUCCESS", "FAILURE"}

\* C23 as stated: no task is executed more than 3 times for one enqueue.
C23_AtMostThreeExecutions ==
    \A i \in DOMAIN jobs : jobs[i].executions <= 3

\* C23: no task is executed more than 4 times for one enqueue, the first
\* execution and at most 3 retries of it.
C23_AtMostThreeRetries ==
    \A i \in DOMAIN jobs :
        /\ jobs[i].retries <= 3
        /\ jobs[i].executions <= 1 + 3

\* C23 witness: a task that failed in every execution has been executed 4
\* times and has ended in failure.
C23_Witness ==
    \E i \in DOMAIN jobs :
        /\ jobs[i].executions = 4
        /\ jobs[i].state = "FAILURE"
        /\ jobs[i].raised = "Exception"

\* C24: every enqueued task eventually ends, in success or in failure.
C24_EveryTaskTerminates ==
    \A i \in 1..MaxEnqueues : [](i \in DOMAIN jobs => <>Terminated(i))

\* C24 witness: a task that failed twice and was retried each time has
\* ended in success.
C24_Witness ==
    \E i \in DOMAIN jobs :
        jobs[i].state = "SUCCESS" /\ jobs[i].retries = 2 /\ jobs[i].executions = 3

\* C30: an execution of process_ticket_generation that raises
\* TicketGenerationError ends the task in failure; it is not retried.
C30_TicketGenerationErrorNotRetried ==
    [][ \A i \in DOMAIN jobs :
          (/\ ExecuteStep(i)
           /\ jobs[i].task = "process_ticket_generation"
           /\ jobs'[i].raised = "TicketGenerationError")
          => (jobs'[i].state = "FAILURE" /\ jobs'[i].retries = jobs[i].retries) ]_vars

----------------------------------------------------------------------------
(* Properties of ticket identity (SpecGen) *)

\* No two stored tickets carry the same qr_code.
QrCodesDistinct ==
    \A a, b \in DOMAIN tickets : a # b => tickets[a].qr_code # tickets[b].qr_code

\* C26: at every moment no two tickets share a qr_code, and no step changes
\* the qr_code of a stored ticket.
C26_QrCodeUniqueAndFixed ==
    /\ []QrCodesDistinct
    /\ [][ \A t \in DOMAIN tickets :
              t \in DOMAIN tickets' /\ tickets'[t].qr_code = tickets[t].qr_code ]_vars

\* C26 witness: one order has received its tickets twice, from the
\* executions of two workers that both passed validation.
C26_Witness ==
    /\ \E o \in DOMAIN orders : Len(TicketsOf(o)) = 2 * SumQuantity(o) /\ SumQuantity(o) > 0
    /\ \A w \in Workers : gen[w].result = "generated"

----------------------------------------------------------------------------
(* Properties of redemption (SpecRedeem) *)

\* A step that makes one redeem call; resp' holds the call.
RedeemStep == nreq' = nreq + 1 /\ resp'.op = "redeem"

\* C25: a redeem call on a redeemed ticket raises ValidationError and
\* leaves every ticket as it was, and no step takes is_redeemed from true
\* back to false.
C25_RedeemedOnce ==
    [][ /\ (RedeemStep /\ tickets[resp'.ticket].is_redeemed)
            => (resp'.error = "ValidationError" /\ tickets' = tickets)
        /\ \A t \in DOMAIN tickets :
              tickets[t].is_redeemed => (t \in DOMAIN tickets' /\ tickets'[t].is_redeemed) ]_vars

\* C25 witness: a ticket redeemed by staff1 at time 2 has been presented
\* again by staff2, the call was refused, and the ticket still shows the
\* first redemption.
C25_Witness ==
    /\ resp.op = "redeem" /\ resp.error = "ValidationError" /\ resp.req = "staff2"
    /\ tickets[resp.ticket].is_redeemed
    /\ tickets[resp.ticket].redeemed_at = 2
    /\ tickets[resp.ticket].redeemed_by_staff = "staff1"
    /\ now = 4

----------------------------------------------------------------------------
(* Properties of the check-in service (SpecCheckIn) *)

\* A step that handles one check-in attempt; resp' holds the attempt.
CheckInStep == checkin'.n = checkin.n + 1

\* The attempts counted for the token in the window that is open at time at.
CountedInWindow(token, at) ==
    IF checkin.expiry[token] = 0 \/ at >= checkin.expiry[token] THEN 0
    ELSE checkin.attempts[token]

\* C28: an attempt for a token that has 5 attempts counted in its open
\* window is answered 429 without taking the lock or looking the attendee
\* up; it schedules nothing and leaves presence and counters as they were.
C28_SixthAttemptRateLimited ==
    [][ (CheckInStep /\ CountedInWindow(resp'.token, now') >= 5)
        => (/\ resp'.status = 429
            /\ ~resp'.locked /\ ~resp'.looked_up
            /\ taskQueue' = taskQueue
            /\ checkin'.present = checkin.present
            /\ checkin'.attempts = checkin.attempts) ]_vars

\* C28 witness: the sixth attempt in a row for t1, a second after the
\* fifth, has been answered 429; the first had checked the attendee in.
C28_Witness ==
    /\ resp.op = "checkin" /\ resp.status = 429 /\ resp.token = "t1"
    /\ checkin.n = 6 /\ checkin.attempts["t1"] = 5 /\ now < checkin.expiry["t1"]
    /\ taskQueue = <<UpdatePresenceTask("t1")>>

\* The update_presence tasks scheduled for the token.
PresenceTasks(token) ==
    SelectSeq(taskQueue, LAMBDA task : task = UpdatePresenceTask(token))

----------------------------------------------------------------------------
(* Properties of ticket generation, continued (SpecGen) *)

\* The order is paid and active, has no Ticket and has at least one
\* OrderItem.
Eligible(oid) ==
    /\ orders[oid].status = "pago"
    /\ orders[oid].state = "ativo"
    /\ \A t \in DOMAIN tickets : tickets[t].order # oid
    /\ \E i \in DOMAIN items : items[i].order = oid

\* Worker w starts an execution for order oid in this step.
FetchStep(w, oid) == genRuns' = genRuns + 1 /\ gen[w].pc = "idle" /\ gen'[w] # gen[w] /\ gen'[w].order = oid

\* Worker w ends its validated execution in this step.
CreateStep_Gen(w) == gen[w].pc = "validated" /\ gen'[w].pc = "idle"

\* C31: an execution stores tickets only for an order that is eligible
\* when they are stored, and an execution that finds its order not
\* eligible returns its message, without raising and without storing a
\* ticket.
C31_OnlyEligibleOrdersGetTickets ==
    [][ \A w \in Workers :
          /\ (CreateStep_Gen(w) /\ tickets' # tickets) => Eligible(gen[w].order)
          /\ \A oid \in DOMAIN orders :
                (FetchStep(w, oid) /\ ~Eligible(oid))
                => (/\ gen'[w].result = "not_eligible"
                    /\ gen'[w].pc = "idle"
                    /\ tickets' = tickets) ]_vars

\* The tickets of the table from position n + 1 on.
TicketsAfter(tks, n) == [j \in 1..(Len(tks) - n) |-> tks[n + j]]

\* C32: a validated execution either stores, after the tickets there were,
\* exactly quantity new tickets for every OrderItem of its order, each
\* naming the order and the item, or ends with TicketGenerationError and
\* stores none.
C32_WholeBatchOrNothing ==
    [][ \A w \in Workers :
          CreateStep_Gen(w)
          => LET oid == gen[w].order
                 batch == TicketsAfter(tickets', Len(tickets))
             IN \/ /\ gen'[w].result = "TicketGenerationError"
                   /\ tickets' = tickets
                \/ /\ gen'[w].result = "generated"
                   /\ Len(tickets') >= Len(tickets)
                   /\ tickets' = tickets \o batch
                   /\ \A j \in DOMAIN batch :
                         batch[j].order = oid /\ items[batch[j].order_item].order = oid
                   /\ \A i \in DOMAIN items :
                         Cardinality({j \in DOMAIN batch : batch[j].order_item = i})
                           = IF items[i].order = oid THEN items[i].quantity ELSE 0 ]_vars

\* C32 witness: the order with two items has received one ticket for each
\* from one execution, and another execution was rolled back.
C32_Witness ==
    /\ Len(items) = 2
    /\ \A i \in DOMAIN items : Cardinality({t \in DOMAIN tickets : tickets[t].order_item = i}) = 1
    /\ \E w \in Workers : gen[w].result = "generated"
    /\ \E w \in Workers : gen[w].result = "TicketGenerationError" /\ gen[w].order = 1

----------------------------------------------------------------------------
(* Properties of task execution, continued (SpecTasks) *)

\* Job i has used up its retries and ended in failure.
Exhausted(i) == jobs[i].state = "FAILURE" /\ jobs[i].retries = max_retries

\* C33: once a ticket generation or ticket email task has used up its
\* retries, the EmailLog holds a row that records a failure.
C33_ExhaustionIsLogged ==
    \A i \in DOMAIN jobs :
        (/\ jobs[i].task \in {"process_ticket_generation", "retry_ticket_email",
                              "send_assigned_ticket_email"}
         /\ Exhausted(i))
        => \E k \in DOMAIN emailLogs : ~emailLogs[k].success

----------------------------------------------------------------------------
(* Properties of process_ticket_page (SpecPage) *)

\* C34: no iteration of process_ticket_page raises; every iteration counts
\* its ticket once, as failed when the id is not stored; and the result the
\* task returns has success + failed = number of ticket ids.
C34_PageCountsEveryTicket ==
    /\ [](/\ ~page.raised
          /\ (page.pos > 0 => page.successful + page.failed = page.pos - 1)
          /\ (page.returned =>
                page.result.success + page.result.failed = Len(page.ids)))
    /\ [][ (page.pos \in DOMAIN page.ids /\ page'.pos = page.pos + 1
            /\ page.ids[page.pos] \notin DOMAIN tickets)
           => page'.failed = page.failed + 1 ]_vars

\* C34 witness: a page of three ids, one of them not stored, has been
\* processed with one ticket sent and two counted as failed, and has
\* returned.
C34_Witness ==
    /\ Len(page.ids) = 3
    /\ \E k \in DOMAIN page.ids : page.ids[k] \notin DOMAIN tickets
    /\ page.returned /\ page.result = [success |-> 1, failed |-> 2]

----------------------------------------------------------------------------
(* Properties of generate_qr_code_image (SpecQr) *)

\* C35: a call of generate_qr_code_image whose rendering succeeds returns
\* the image, whether or not the read and the write of the cache succeed.
C35_CacheNeverFailsTheImage ==
    (qr.n > 0 /\ qr.last.render_ok) => (~qr.last.raised /\ qr.last.result = "image")

\* The half of C35 about the read: a call whose rendering and cache write
\* succeed returns the image even when the cache read fails.
C35_ReadFailureDegrades ==
    (qr.n > 0 /\ qr.last.render_ok /\ qr.last.write_ok)
        => (~qr.last.raised /\ qr.last.result = "image")

----------------------------------------------------------------------------
(* Properties of AsaasService (SpecAsaas) *)

\* The customers the gateway has created.
CustomersCreated == Len(SelectSeq(gateway, LAMBDA r : r = "customers"))

\* Process p is inside a call of ensure_customer made on its own, while no
\* other call is in progress.
EnsureAlone(p) ==
    /\ asaas'.proc[p].caller = "ensure_customer"
    /\ \A q \in Procs \ {p} : asaas.proc[q].pc \in {"idle", "done"}

\* C36: ensure_customer on a User with a customer id returns that id and
\* sends nothing; on a User without one it sends exactly one
\* customer-creation request and stores the returned id on the User row,
\* and stores nothing when that request fails.
C36_EnsureCustomer ==
    [][ \A p \in Procs : EnsureAlone(p) =>
          /\ (asaas.proc[p].pc \in {"idle", "done"} /\ asaas'.proc[p] # asaas.proc[p]
              /\ users[Buyer].asaas_customer_id # Null)
             => /\ asaas'.proc[p].pc = "done" /\ ~asaas'.proc[p].raised
                /\ asaas'.proc[p].result = users[Buyer].asaas_customer_id
                /\ asaas'.proc[p].requests = 0
                /\ gateway' = gateway /\ users' = users
          /\ (asaas.proc[p].pc = "post_customer" /\ asaas'.proc[p].pc = "done")
             => /\ asaas'.proc[p].requests = 1
                /\ Len(gateway') = Len(gateway) + 1
                /\ gateway'[Len(gateway')] \in {"customers", "customers_refused"}
                /\ IF asaas'.proc[p].raised
                   THEN users' = users
                   ELSE /\ asaas'.proc[p].result # Null
                        /\ users'[Buyer].asaas_customer_id = asaas'.proc[p].result ]_vars

\* C36 witness: one call of ensure_customer has created the customer and a
\* later one has returned the stored id without a request.
C36_Witness ==
    /\ gateway = <<"customers">>
    /\ users[Buyer].asaas_customer_id = "cus_1"
    /\ \E p \in Procs :
          /\ asaas.proc[p].caller = "ensure_customer" /\ asaas.proc[p].pc = "done"
          /\ asaas.proc[p].had_id /\ asaas.proc[p].result = "cus_1"

----------------------------------------------------------------------------
(* Ticket emails and payment (SpecRequests) *)

\* The tasks a step hands to the broker.
NewTasks == [k \in 1..(Len(taskQueue') - Len(taskQueue)) |-> taskQueue'[Len(taskQueue) + k]]

====
